---- MODULE Spec2Model ----
(***************************************************************************)
(* go-teamcity: the REST helper and the resource services built on it.     *)
(*                                                                         *)
(* One client drives one service of the library followsst a TeamCity server. *)
(* Every service method is a sequence of REST helper calls; every helper   *)
(* call is one HTTP exchange whose outcome the environment (network and    *)
(* server) chooses.  A step of the model is one helper call together with  *)
(* the service code that runs up to the next helper call or the return.    *)
(*                                                                         *)
(* Strings are drawn from small sets, "" being Go's empty string.  A nil   *)
(* pointer is the record Nil.  The services share no state, so a session   *)
(* (variable svc) exercises one of them.                                   *)
(***************************************************************************)
EXTENDS Integers, Sequences, FiniteSets, TLC

-----------------------------------------------------------------------------
(* HTTP status codes the helper branches on. *)
StatusOK == 200
StatusCreated == 201
StatusNoContent == 204
(* What a server answers with: a request it carried out, a request it refused. *)
SuccessClass == {StatusOK, StatusCreated, StatusNoContent}
RejectClass == {404, 500}
Statuses == SuccessClass \cup RejectClass

(* Bounds of the model. *)
MaxPools == 2
MaxFeatures == 1

-----------------------------------------------------------------------------
(* Values. *)
Nil == [nil |-> TRUE]

ProjectNames == {"a", "b"}
Descriptions == {"", "d"}
ProjectIDs == {"p", "q"}
RootID == "_Root"
OtherParent == "r"
ParamNames == {"k"}
TheUUID == "u1"
ErrorText == "server message"

(* *ProjectReference: Nil or a reference carrying an ID. *)
Ref(id) == [nil |-> FALSE, ID |-> id]

(* *Parameters: its items, each a name and whether the project inherits it. *)
Param(name, inherited) == [name |-> name, inherited |-> inherited]
Count(params) == Cardinality(params)
(* Parameters.NonInherited() *)
NonInherited(params) == {x \in params : ~x.inherited}

Project(uuid, id, name, desc, parentID, parent, params) ==
    [nil |-> FALSE, UUID |-> uuid, ID |-> id, Name |-> name, Description |-> desc,
     ParentProjectID |-> parentID, ParentProject |-> parent, Parameters |-> params]

(* NewProject, were the name not checked. *)
NewProjectUnchecked(name, description, parentProjectID) ==
    [project |-> Project("", "", name, description, parentProjectID,
                         IF parentProjectID # "" THEN Ref(parentProjectID) ELSE Nil,
                         {}),
     err |-> Nil]

(* NewProject(name, description, parentProjectID): (project, error). *)
NewProject(name, description, parentProjectID) ==
    IF name = ""
    THEN [project |-> Nil, err |-> [kind |-> "validation", text |-> "name is required"]]
    ELSE [project |-> Project("", "", name, description, parentProjectID,
                              IF parentProjectID # "" THEN Ref(parentProjectID) ELSE Nil,
                              {}),
          err |-> Nil]

(* Project.SetParentProject(parentID). *)
SetParentProject(p, parentID) ==
    [p EXCEPT !.ParentProjectID = parentID, !.ParentProject = Ref(parentID)]

(* Locators: the value and the dimension it is looked up by. *)
LocatorID(id) == [by |-> "id", value |-> id]
LocatorName(name) == [by |-> "name", value |-> name]
LocatorUUID(uuid) == [by |-> "uuid", value |-> uuid]
LocatorString(l) == l.by \o ":" \o l.value
(* A path made of a bare project ID, as in project.ID + "/parameters". *)
BareID(id) == [by |-> "", value |-> id]

(* project.Locator() *)
ProjectLocator(p) == LocatorUUID(p.UUID)

-----------------------------------------------------------------------------
(* The server.  srv.project is the one project slot (Nil: no project),     *)
(* srv.pools the agent pools by id, srv.feats the project features by id.  *)

VARIABLES
    svc,       \* the service this session uses
    srv,       \* what the server stores
    op,        \* the service method in progress, or the last one
    pc,        \* where it stands: "idle", the next request, or "done"
    project,   \* its argument (a project, an agent pool or a feature)
    locator,   \* the locator it addresses
    current,   \* updateProject's current
    ret,       \* what it returned: value and error
    resp,      \* the last HTTP exchange
    last,      \* the last helper call's result: err and out
    reqs,      \* history: the requests of this call, in order
    accepted,  \* history: the writes of this call the server carried out
    called,    \* history: the last helper called and its resource description
    nhelper,   \* history: the helper calls of this call
    failedAt,  \* history: which request of this call failed first (0: none)
    follows,   \* history: what this call follows up, if anything
    heap,      \* the request builders: 0 is the service's, g is goroutine g's copy
    gor,       \* the goroutines calling the project service side by side
    golang     \* a golang build feature and its JSON form

seqvars == <<svc, srv, op, pc, project, locator, current, ret, resp, last, reqs,
             accepted, called, nhelper, failedAt, follows>>
vars == <<seqvars, heap, gor, golang>>

(* The ID the server derives from a name when the caller gives none. *)
GeneratedID(name) == IF name = "a" THEN "p" ELSE "q"

(* Parameters a project inherits from its parent. *)
InheritedParams(parentID) == IF parentID = OtherParent THEN {Param("inh", TRUE)} ELSE {}

(* The $long,uuid representation of the stored project. *)
ProjectDoc(sp) ==
    [nil |-> FALSE, UUID |-> sp.UUID, ID |-> sp.ID, Name |-> sp.Name,
     Description |-> sp.Description, ParentProjectID |-> sp.ParentProjectID,
     ParentProject |-> Ref(sp.ParentProjectID),
     Parameters |-> sp.Parameters \cup InheritedParams(sp.ParentProjectID)]

Resolves(sp, loc) ==
    /\ ~sp.nil
    /\ \/ loc.by = "uuid" /\ sp.UUID = loc.value
       \/ loc.by \in {"id", ""} /\ sp.ID = loc.value
       \/ loc.by = "name" /\ sp.Name = loc.value

Refused(s) == [ok |-> FALSE, s |-> s, doc |-> Nil]
Carried(s, doc) == [ok |-> TRUE, s |-> s, doc |-> doc]

(* What the server does with a request on projects/ when it carries it out. *)
HandleProject(req, s) ==
    LET sp == s.project
        set(new) == [s EXCEPT !.project = new]
    IN  IF req.verb = "POST"
        THEN IF sp.nil /\ req.body.Name # ""
             THEN LET created ==
                        [nil |-> FALSE, UUID |-> TheUUID,
                         ID |-> IF req.body.ID # "" THEN req.body.ID
                                ELSE GeneratedID(req.body.Name),
                         Name |-> req.body.Name,
                         \* creation persists neither description nor parameters
                         Description |-> "",
                         ParentProjectID |-> IF req.body.ParentProject.nil THEN RootID
                                             ELSE req.body.ParentProject.ID,
                         Parameters |-> {}]
                  IN  Carried(set(created), ProjectDoc(created))
             ELSE Refused(s)
        ELSE IF ~Resolves(sp, req.path.loc) THEN Refused(s)
        ELSE IF req.verb = "GET" THEN Carried(s, ProjectDoc(sp))
        ELSE IF req.verb = "DELETE" THEN Carried(set(Nil), Nil)
        ELSE IF req.path.sub = "name"
        THEN IF req.body # "" THEN Carried(set([sp EXCEPT !.Name = req.body]), Nil)
             ELSE Refused(s)
        ELSE IF req.path.sub = "description"
        THEN Carried(set([sp EXCEPT !.Description = req.body]), Nil)
        ELSE IF req.path.sub = "id"
        THEN IF req.body # "" THEN Carried(set([sp EXCEPT !.ID = req.body]), Nil)
             ELSE Refused(s)
        ELSE IF req.path.sub = "parentProject"
        THEN IF ~req.body.nil
             THEN Carried(set([sp EXCEPT !.ParentProjectID = req.body.ID]), Ref(req.body.ID))
             ELSE Refused(s)
        ELSE IF req.path.sub = "parameters"
        THEN Carried(set([sp EXCEPT !.Parameters = NonInherited(req.body)]), Nil)
        ELSE Refused(s)

(* AgentPool: Id (0 before the server assigns one), Name, MaxAgents (an int pointer). *)
PoolNames == {"a", "b"}
PoolIds == 1..MaxPools
IntPtr(n) == [nil |-> FALSE, v |-> n]
AgentPool(id, name, maxAgents) ==
    [nil |-> FALSE, Id |-> id, Name |-> name, MaxAgents |-> maxAgents]
LocatorIDInt(id) == [by |-> "id", value |-> id]

FreePoolIds(s) == {i \in PoolIds : s.pools[i].nil}
MinOf(S) == CHOOSE i \in S : \A j \in S : i <= j

(* What the server does with a request on agentPools/ when it carries it out. *)
HandlePool(req, s) ==
    IF req.verb = "POST"
    THEN IF FreePoolIds(s) # {}
         THEN LET id == MinOf(FreePoolIds(s))
                  created == AgentPool(id, req.body.Name, req.body.MaxAgents)
              IN  Carried([s EXCEPT !.pools[id] = created], created)
         ELSE Refused(s)
    ELSE IF req.path.loc = Nil
    THEN IF req.verb = "GET"
         THEN Carried(s, [nil |-> FALSE,
                          AgentPools |-> {s.pools[i] : i \in PoolIds \ FreePoolIds(s)}])
         ELSE Refused(s)
    ELSE IF req.path.loc.value \notin PoolIds \/ s.pools[req.path.loc.value].nil
    THEN Refused(s)
    ELSE IF req.verb = "GET" THEN Carried(s, s.pools[req.path.loc.value])
    ELSE IF req.verb = "DELETE"
    THEN Carried([s EXCEPT !.pools[req.path.loc.value] = Nil], Nil)
    ELSE Refused(s)

(* Properties: an ordered list of (name, value). *)
NewProperty(name, value) == [name |-> name, value |-> value]
PropertyNames(props) == {props[i].name : i \in 1..Len(props)}
(* Properties.GetOk(name): (value, ok) *)
GetOk(props, name) ==
    IF name \in PropertyNames(props)
    THEN [value |-> props[CHOOSE i \in 1..Len(props) : props[i].name = name].value,
          ok |-> TRUE]
    ELSE [value |-> "", ok |-> FALSE]
(* Properties.Map() *)
Map(props) == [n \in PropertyNames(props) |-> GetOk(props, n).value]

SecureNames == {"secure:clientSecret", "secure:token"}
FeatureIds == 1..MaxFeatures
FeatureIDString(i) == IF i = 1 THEN "PROJECT_EXT_1" ELSE "PROJECT_EXT_2"
FreeFeatureIds(s) == {i \in FeatureIds : s.feats[i].nil}
FeatureSlot(s, id) == {i \in FeatureIds \ FreeFeatureIds(s) : s.feats[i].ID = id}

(* The server never sends the value of a secure property back. *)
Masked(props) ==
    [i \in 1..Len(props) |->
        IF props[i].name \in SecureNames THEN NewProperty(props[i].name, "") ELSE props[i]]
FeatureDoc(sf) == [sf EXCEPT !.Properties = Masked(sf.Properties)]

(* What the server does with a request on a project's projectFeatures/. *)
HandleFeature(req, s) ==
    IF req.verb = "POST"
    THEN IF FreeFeatureIds(s) # {}
         THEN LET i == MinOf(FreeFeatureIds(s))
                  created == [nil |-> FALSE, ID |-> FeatureIDString(i),
                              Type |-> req.body.Type, Properties |-> req.body.Properties]
              IN  Carried([s EXCEPT !.feats[i] = created], FeatureDoc(created))
         ELSE Refused(s)
    ELSE IF FeatureSlot(s, req.path.loc.value) = {} THEN Refused(s)
    ELSE LET i == MinOf(FeatureSlot(s, req.path.loc.value))
         IN  IF req.verb = "GET" THEN Carried(s, FeatureDoc(s.feats[i]))
             ELSE IF req.verb = "DELETE" THEN Carried([s EXCEPT !.feats[i] = Nil], Nil)
             ELSE IF req.verb = "PUT"
             THEN LET stored == [s.feats[i] EXCEPT !.Type = req.body.Type,
                                                   !.Properties = req.body.Properties]
                  IN  Carried([s EXCEPT !.feats[i] = stored], FeatureDoc(stored))
             ELSE Refused(s)

Handle(req, s) ==
    IF req.base = "projects/" THEN HandleProject(req, s)
    ELSE IF req.base = "agentPools/" THEN HandlePool(req, s)
    ELSE HandleFeature(req, s)

-----------------------------------------------------------------------------
(* One HTTP exchange, as httpClient.Do and the reading of the response     *)
(* body show it to the helper: a transport error (net), or a status with a *)
(* body that may fail to be read ("read") or to be decoded ("malformed").  *)
NetError == [net |-> TRUE, status |-> 0, fault |-> "none", body |-> "", doc |-> Nil]
Response(status, fault, body, doc) ==
    [net |-> FALSE, status |-> status, fault |-> fault, body |-> body, doc |-> doc]

(* The exchanges the environment may answer a request with: the request or *)
(* its response is lost (before or after the server carried it out), the   *)
(* server refuses, or the server carries it out.                           *)
Exchanges(req, s) ==
    LET h == Handle(req, s)
    IN  {[s |-> s, applied |-> FALSE, resp |-> NetError]}
        \cup {[s |-> s, applied |-> FALSE, resp |-> Response(st, f, ErrorText, Nil)] :
                    st \in RejectClass, f \in {"none", "read"}}
        \cup IF h.ok
             THEN {[s |-> h.s, applied |-> TRUE, resp |-> NetError]}
                  \cup {[s |-> h.s, applied |-> TRUE, resp |-> Response(st, f, "json", h.doc)] :
                            st \in SuccessClass, f \in {"none", "read", "malformed"}}
             ELSE {}

-----------------------------------------------------------------------------
(* The REST helper.  An error is Nil or one of: the transport error of     *)
(* httpClient.Do, the error of reading the body, the JSON decoder's error, *)
(* the error handleRestError formats.                                      *)
TransportError == [nil |-> FALSE, kind |-> "transport"]
ReadError == [nil |-> FALSE, kind |-> "read"]
DecodeError == [nil |-> FALSE, kind |-> "decode"]
handleRestError(dt, status, verb, res) ==
    [nil |-> FALSE, kind |-> "rest", status |-> status, op |-> verb, res |-> res, body |-> dt]

Result(err, out) == [err |-> err, out |-> out]

(* json.NewDecoder(response.Body).Decode(out) *)
Decode(r) ==
    IF r.fault = "read" THEN Result(ReadError, Nil)
    ELSE IF r.fault = "malformed" THEN Result(DecodeError, Nil)
    ELSE Result(Nil, r.doc)

(* io.ReadAll(response.Body), then handleRestError *)
ReadThenRestError(r, verb, res) ==
    IF r.fault = "read" THEN Result(ReadError, Nil)
    ELSE Result(handleRestError(r.body, r.status, verb, res), Nil)

(* getWithFieldsResult, were 201 taken for a success as in post and put. *)
getWithFieldsResultLikePost(r, res) ==
    IF r.net THEN Result(TransportError, Nil)
    ELSE IF r.status = StatusCreated \/ r.status = StatusOK THEN Decode(r)
    ELSE ReadThenRestError(r, "GET", res)

getWithFieldsResult(r, res) ==
    IF r.net THEN Result(TransportError, Nil)
    ELSE IF r.status = StatusOK THEN Decode(r)
    ELSE ReadThenRestError(r, "GET", res)

postResult(r, res) ==
    IF r.net THEN Result(TransportError, Nil)
    ELSE IF r.status = StatusCreated \/ r.status = StatusOK THEN Decode(r)
    ELSE ReadThenRestError(r, "POST", res)

putResult(r, res) ==
    IF r.net THEN Result(TransportError, Nil)
    ELSE IF r.status = StatusCreated \/ r.status = StatusOK THEN Decode(r)
    ELSE ReadThenRestError(r, "PUT", res)

putTextPlainResult(r, res) ==
    IF r.net THEN Result(TransportError, Nil)
    ELSE IF r.fault = "read" THEN Result(ReadError, Nil)
    ELSE IF r.status = StatusCreated \/ r.status = StatusOK
    THEN Result(Nil, [nil |-> FALSE, text |-> r.body])
    ELSE Result(handleRestError(r.body, r.status, "PUT", res), Nil)

(* deleteResult, were the status left unchecked. *)
deleteResultAnyStatus(r, res) ==
    IF r.net THEN Result(TransportError, Nil) ELSE Result(Nil, Nil)

deleteResult(r, res) ==
    IF r.net THEN Result(TransportError, Nil)
    ELSE IF r.status = StatusNoContent THEN Result(Nil, Nil)
    ELSE IF r.status # StatusOK /\ r.status # StatusNoContent
    THEN ReadThenRestError(r, "DELETE", res)
    ELSE Result(Nil, Nil)

(* A request as it goes on the wire. *)
Request(base, verb, loc, sub, fields, body) ==
    [base |-> base, verb |-> verb, path |-> [loc |-> loc, sub |-> sub],
     fields |-> fields, body |-> body]
(* What the call's log keeps of it. *)
Wire(req) == [verb |-> req.verb, path |-> req.path]
IsWrite(w) == w.verb # "GET"

(* httpClient.Do(request): the one exchange of a helper call. *)
Do(req) ==
    \E x \in Exchanges(req, srv) :
        /\ srv' = x.s
        /\ resp' = x.resp
        /\ reqs' = Append(reqs, Wire(req))
        /\ accepted' = IF x.applied /\ IsWrite(Wire(req))
                       THEN Append(accepted, Wire(req)) ELSE accepted

(* Bookkeeping of a helper call: how many were made, whether one failed. *)
Called(helper, res) ==
    /\ called' = [helper |-> helper, res |-> res]
    /\ nhelper' = nhelper + 1
    /\ failedAt' = IF failedAt = 0 /\ last'.err # Nil THEN Len(reqs') ELSE failedAt

getWithFields(base, loc, fields, res) ==
    /\ Do(Request(base, "GET", loc, "", fields, Nil))
    /\ last' = getWithFieldsResult(resp', res)
    /\ Called("getWithFields", res)

get(base, loc, res) == getWithFields(base, loc, "", res)

(* post, were a failed request sent once more. *)
postRetries(base, data, res) ==
    LET req == Request(base, "POST", Nil, "", "", data)
    IN  \E x \in Exchanges(req, srv) :
          LET first == postResult(x.resp, res)
          IN  IF first.err = Nil
              THEN /\ srv' = x.s /\ resp' = x.resp
                   /\ reqs' = Append(reqs, Wire(req))
                   /\ accepted' = IF x.applied THEN Append(accepted, Wire(req)) ELSE accepted
                   /\ last' = first
                   /\ Called("post", res)
              ELSE \E y \in Exchanges(req, x.s) :
                   /\ srv' = y.s /\ resp' = y.resp
                   /\ reqs' = reqs \o <<Wire(req), Wire(req)>>
                   /\ accepted' = IF y.applied THEN Append(accepted, Wire(req)) ELSE accepted
                   /\ last' = postResult(y.resp, res)
                   /\ Called("post", res)

post(base, data, res) ==
    /\ Do(Request(base, "POST", Nil, "", "", data))
    /\ last' = postResult(resp', res)
    /\ Called("post", res)

put(base, loc, sub, data, res) ==
    /\ Do(Request(base, "PUT", loc, sub, "", data))
    /\ last' = putResult(resp', res)
    /\ Called("put", res)

putTextPlain(base, loc, sub, data, res) ==
    /\ Do(Request(base, "PUT", loc, sub, "", data))
    /\ last' = putTextPlainResult(resp', res)
    /\ Called("putTextPlain", res)

deleteByIDWithSling(base, loc, res) ==
    /\ Do(Request(base, "DELETE", loc, "", "", Nil))
    /\ last' = deleteResult(resp', res)
    /\ Called("deleteByIDWithSling", res)

delete(base, loc, res) == deleteByIDWithSling(base, loc, res)

-----------------------------------------------------------------------------
(* The calling side.  op is the service method in progress (or the last    *)
(* one, when pc = "done"), project its argument, ret what it returned.     *)
Idle == pc = "idle"
Returned == pc = "done"
Goto(step) == pc' = step /\ ret' = ret
Return(value, err) == pc' = "done" /\ ret' = [value |-> value, err |-> err]
NoReturn == [value |-> Nil, err |-> Nil]

(* A call begins: nothing requested yet. *)
Begin(method, arg, loc, step, after) ==
    /\ op' = method /\ project' = arg /\ locator' = loc /\ pc' = step
    /\ follows' = after
    /\ current' = Nil /\ reqs' = <<>> /\ accepted' = <<>>
    /\ nhelper' = 0 /\ failedAt' = 0 /\ called' = Nil
    /\ ret' = NoReturn /\ last' = Result(Nil, Nil) /\ resp' = Nil
    /\ UNCHANGED <<heap, gor, golang, svc, srv>>

ProjectsBase == "projects/"
ProjectFields == "$long,uuid"

(* ProjectService.Get(locator), given the helper's result. *)
ProjectGetResult(l) ==
    IF l.err # Nil THEN [value |-> Nil, err |-> l.err]
    ELSE [value |-> [l.out EXCEPT !.Parameters = NonInherited(@)], err |-> l.err]

ProjectGet(loc) == getWithFields(ProjectsBase, loc, ProjectFields, "project")

(* updateProject: the writes it makes after reading current, in order, and *)
(* the condition of each.                                                  *)
UpdateSteps == <<"name", "description", "id", "parentProject", "parameters", "refresh">>

(* Needs, were the name written on every update, as updateProject once did. *)
NeedsAlwaysName(step, cur, p, isCreate) ==
    IF step = "name" THEN TRUE
    ELSE IF step = "description" THEN cur.Description # p.Description
    ELSE IF step = "id" THEN cur.ID # p.ID
    ELSE IF step = "parentProject"
    THEN /\ ~isCreate
         /\ (p.ParentProjectID # "" \/ ~p.ParentProject.nil)
         /\ cur.ParentProjectID # p.ParentProjectID
    ELSE IF step = "parameters" THEN Count(p.Parameters) > 0
    ELSE TRUE

(* Needs, were the parameters written on every update. *)
NeedsParametersAlways(step, cur, p, isCreate) ==
    IF step = "name" THEN cur.Name # p.Name
    ELSE IF step = "description" THEN cur.Description # p.Description
    ELSE IF step = "id" THEN cur.ID # p.ID
    ELSE IF step = "parentProject"
    THEN /\ ~isCreate
         /\ (p.ParentProjectID # "" \/ ~p.ParentProject.nil)
         /\ cur.ParentProjectID # p.ParentProjectID
    ELSE TRUE

(* Needs, were the description the only field Update compares and writes. *)
NeedsOnlyDescription(step, cur, p, isCreate) ==
    IF step = "name" THEN FALSE
    ELSE IF step = "description" THEN cur.Description # p.Description
    ELSE IF step = "id" THEN FALSE
    ELSE IF step = "parentProject" THEN FALSE
    ELSE IF step = "parameters" THEN Count(p.Parameters) > 0
    ELSE TRUE

(* Needs, were the parent written whenever the project names one. *)
NeedsParentUncompared(step, cur, p, isCreate) ==
    IF step = "name" THEN cur.Name # p.Name
    ELSE IF step = "description" THEN cur.Description # p.Description
    ELSE IF step = "id" THEN cur.ID # p.ID
    ELSE IF step = "parentProject"
    THEN /\ ~isCreate
         /\ (p.ParentProjectID # "" \/ ~p.ParentProject.nil)
    ELSE IF step = "parameters" THEN Count(p.Parameters) > 0
    ELSE TRUE

(* Needs, were the description left as the creation made it. *)
NeedsNoDescription(step, cur, p, isCreate) ==
    IF step = "name" THEN cur.Name # p.Name
    ELSE IF step = "description" THEN FALSE
    ELSE IF step = "id" THEN cur.ID # p.ID
    ELSE IF step = "parentProject"
    THEN /\ ~isCreate
         /\ (p.ParentProjectID # "" \/ ~p.ParentProject.nil)
         /\ cur.ParentProjectID # p.ParentProjectID
    ELSE IF step = "parameters" THEN Count(p.Parameters) > 0
    ELSE TRUE

Needs(step, cur, p, isCreate) ==
    IF step = "name" THEN cur.Name # p.Name
    ELSE IF step = "description" THEN cur.Description # p.Description
    ELSE IF step = "id" THEN cur.ID # p.ID
    ELSE IF step = "parentProject"
    THEN /\ ~isCreate
         /\ (p.ParentProjectID # "" \/ ~p.ParentProject.nil)
         /\ cur.ParentProjectID # p.ParentProjectID
    ELSE IF step = "parameters" THEN Count(p.Parameters) > 0
    ELSE TRUE

StepIndex(step) ==
    IF step = "get" THEN 0 ELSE CHOOSE i \in 1..Len(UpdateSteps) : UpdateSteps[i] = step

NextStep(after, cur, p, isCreate) ==
    UpdateSteps[MinOf({i \in 1..Len(UpdateSteps) :
                          i > StepIndex(after) /\ Needs(UpdateSteps[i], cur, p, isCreate)})]

isCreate == op = "Create"

(* The projects a caller passes: built by NewProject and then given an ID  *)
(* and parameters, or a Project literal (which may lack a name, or name a  *)
(* parent in one of its two parent fields only).                           *)
NewProjects ==
    {NewProject(n, d, parent).project :
        n \in {x \in ProjectNames \cup {""} : NewProject(x, "", "").err = Nil},
        d \in Descriptions, parent \in {"", OtherParent}}
ParamChoices == {{}, {Param("k", FALSE)}}
CreateInputs ==
    {[p EXCEPT !.ID = id, !.Parameters = ps] :
        p \in NewProjects, id \in {"", "p"}, ps \in ParamChoices}
    \cup {Project("", "", "", d, "", Nil, {}) : d \in Descriptions}
UpdateInputs ==
    LET known == {[p EXCEPT !.UUID = TheUUID, !.ID = id, !.Parameters = ps] :
                    p \in NewProjects, id \in ProjectIDs, ps \in ParamChoices}
    IN  known
        \cup {[p EXCEPT !.ParentProject = Nil] : p \in known}
        \cup {[p EXCEPT !.ParentProject = Ref(OtherParent)] : p \in known}
ProjectLocators ==
    {LocatorID(id) : id \in ProjectIDs} \cup {LocatorName(n) : n \in ProjectNames}
    \cup {LocatorUUID(TheUUID)}

Succeeded == Returned /\ ret.err = Nil

(* The caller lets go of what the last call returned. *)
Release ==
    /\ Returned
    /\ op' = "" /\ pc' = "idle" /\ project' = Nil /\ locator' = Nil /\ current' = Nil
    /\ reqs' = <<>> /\ resp' = Nil /\ last' = Result(Nil, Nil) /\ ret' = NoReturn
    /\ nhelper' = 0 /\ accepted' = <<>> /\ failedAt' = 0 /\ follows' = ""
    /\ called' = Nil
    /\ UNCHANGED <<heap, gor, golang, svc, srv>>

(* ProjectService.Create(project) *)
StartCreate ==
    /\ svc = "projects" /\ Idle
    /\ \E p \in CreateInputs : Begin("Create", p, Nil, "post", "")

(* CreatePost, were the creation response returned as the project. *)
CreatePostReturnsCreated ==
    /\ svc = "projects" /\ pc = "post" /\ op = "Create"
    /\ post(ProjectsBase, project, "project")
    /\ IF last'.err # Nil THEN Return(Nil, last'.err) ELSE Return(last'.out, Nil)
    /\ UNCHANGED <<heap, gor, golang, svc, op, project, locator, current, follows>>

CreatePost ==
    /\ svc = "projects" /\ pc = "post" /\ op = "Create"
    /\ post(ProjectsBase, project, "project")
    /\ IF last'.err # Nil
       THEN Return(Nil, last'.err) /\ UNCHANGED <<project, locator>>
       ELSE /\ project' = [project EXCEPT !.ID = last'.out.ID]
            /\ locator' = LocatorID(last'.out.ID)
            /\ Goto("get")
    /\ UNCHANGED <<heap, gor, golang, svc, op, current, follows>>

(* ProjectService.Update(project) *)
StartUpdate ==
    /\ svc = "projects" /\ Idle
    /\ \E p \in UpdateInputs : Begin("Update", p, LocatorUUID(p.UUID), "get", "")

(* Update(project) again, with the project a successful Update was just given *)
UpdateAgain ==
    /\ svc = "projects" /\ op = "Update" /\ Succeeded /\ ret.value # Nil
    /\ Begin("Update", project, LocatorUUID(project.UUID), "get", "same update")

(* updateProject(locator, project, isCreate), one request at a time *)
UpdGet ==
    /\ pc = "get" /\ op \in {"Create", "Update"}
    /\ ProjectGet(locator)
    /\ LET got == ProjectGetResult(last')
       IN  IF got.err # Nil
           THEN Return(Nil, got.err) /\ current' = current
           ELSE current' = got.value
                /\ Goto(NextStep("get", got.value, project, isCreate))
    /\ UNCHANGED <<heap, gor, golang, svc, op, project, locator, follows>>

(* updateStringField(locator, fieldName, value, fieldDescription) *)
updateStringField(loc, fieldName, value, fieldDescription) ==
    putTextPlain(ProjectsBase, loc, fieldName, value, fieldDescription)

(* UpdName, were the error of the name write not returned at once. *)
UpdNameGoesOn ==
    /\ pc = "name"
    /\ updateStringField(locator, "name", project.Name, "project name")
    /\ Goto(NextStep("name", current, project, isCreate))
    /\ UNCHANGED <<heap, gor, golang, svc, op, project, locator, current, follows>>

UpdName ==
    /\ pc = "name"
    /\ updateStringField(locator, "name", project.Name, "project name")
    /\ IF last'.err # Nil THEN Return(Nil, last'.err)
       ELSE Goto(NextStep("name", current, project, isCreate))
    /\ UNCHANGED <<heap, gor, golang, svc, op, project, locator, current, follows>>

UpdDescription ==
    /\ pc = "description"
    /\ updateStringField(locator, "description", project.Description, "project description")
    /\ IF last'.err # Nil THEN Return(Nil, last'.err)
       ELSE Goto(NextStep("description", current, project, isCreate))
    /\ UNCHANGED <<heap, gor, golang, svc, op, project, locator, current, follows>>

UpdID ==
    /\ pc = "id"
    /\ updateStringField(locator, "id", project.ID, "project id")
    /\ IF last'.err # Nil THEN Return(Nil, last'.err)
       ELSE Goto(NextStep("id", current, project, isCreate))
    /\ UNCHANGED <<heap, gor, golang, svc, op, project, locator, current, follows>>

UpdParent ==
    /\ pc = "parentProject"
    /\ put(ProjectsBase, BareID(project.ID), "parentProject", project.ParentProject,
           "parent project")
    /\ IF last'.err # Nil THEN Return(Nil, Nil)
       ELSE Goto(NextStep("parentProject", current, project, isCreate))
    /\ UNCHANGED <<heap, gor, golang, svc, op, project, locator, current, follows>>

UpdParameters ==
    /\ pc = "parameters"
    /\ put(ProjectsBase, BareID(project.ID), "parameters", project.Parameters,
           "project parameters")
    /\ IF last'.err # Nil THEN Return(Nil, last'.err)
       ELSE Goto(NextStep("parameters", current, project, isCreate))
    /\ UNCHANGED <<heap, gor, golang, svc, op, project, locator, current, follows>>

UpdRefresh ==
    /\ pc = "refresh"
    /\ ProjectGet(locator)
    /\ LET got == ProjectGetResult(last')
       IN  IF got.err # Nil THEN Return(Nil, got.err) ELSE Return(got.value, Nil)
    /\ UNCHANGED <<heap, gor, golang, svc, op, project, locator, current, follows>>

(* ProjectService.GetByID / GetByName / GetByUUID *)
StartGet ==
    /\ svc = "projects" /\ Idle
    /\ \E loc \in ProjectLocators : Begin("Get", Nil, loc, "call", "")

(* GetByID of the ID a successful Create just returned *)
GetCreated ==
    /\ svc = "projects" /\ op = "Create" /\ Succeeded /\ ret.value # Nil
    /\ Begin("Get", project, LocatorID(ret.value.ID), "call", "created")

(* GetByID of the ID a successful Delete was just given *)
GetDeleted ==
    /\ svc = "projects" /\ op = "Delete" /\ Succeeded
    /\ Begin("Get", Nil, locator, "call", "deleted")

GetCall ==
    /\ svc = "projects" /\ pc = "call" /\ op = "Get"
    /\ ProjectGet(locator)
    /\ LET got == ProjectGetResult(last') IN Return(got.value, got.err)
    /\ UNCHANGED <<heap, gor, golang, svc, op, project, locator, current, follows>>

(* ProjectService.Delete(id), DeleteLocator(locator) *)
StartDelete ==
    /\ svc = "projects" /\ Idle
    /\ \E id \in ProjectIDs : Begin("Delete", Nil, LocatorID(id), "call", "")

DeleteCall ==
    /\ svc = "projects" /\ pc = "call" /\ op = "Delete"
    /\ deleteByIDWithSling(ProjectsBase, locator, "project")
    /\ Return(Nil, last'.err)
    /\ UNCHANGED <<heap, gor, golang, svc, op, project, locator, current, follows>>

-----------------------------------------------------------------------------
(* AgentPoolsService *)
PoolsBase == "agentPools/"
PoolInputs == {AgentPool(0, n, m) : n \in PoolNames, m \in {Nil, IntPtr(1)}}

(* Single-request methods: what they return from the helper's result. *)
ValueOrError(l) == IF l.err # Nil THEN [value |-> Nil, err |-> l.err]
                   ELSE [value |-> l.out, err |-> Nil]

(* AgentPoolsService.Create(pool) *)
PoolStartCreate ==
    /\ svc = "agentPools" /\ Idle
    /\ \E pool \in PoolInputs : Begin("Create", pool, Nil, "call", "")

PoolCreate ==
    /\ svc = "agentPools" /\ pc = "call" /\ op = "Create"
    /\ post(PoolsBase, project, "Agent Pool")
    /\ LET r == ValueOrError(last') IN Return(r.value, r.err)
    /\ UNCHANGED <<heap, gor, golang, svc, op, project, locator, current, follows>>

(* AgentPoolsService.Get(id) *)
PoolStartGet ==
    /\ svc = "agentPools" /\ Idle
    /\ \E id \in PoolIds : Begin("Get", Nil, LocatorIDInt(id), "call", "")

PoolGetCreated ==
    /\ svc = "agentPools" /\ op = "Create" /\ Succeeded
    /\ Begin("Get", project, LocatorIDInt(ret.value.Id), "call", "created")

PoolGetDeleted ==
    /\ svc = "agentPools" /\ op = "Delete" /\ Succeeded
    /\ Begin("Get", Nil, locator, "call", "deleted")

PoolGet ==
    /\ svc = "agentPools" /\ pc = "call" /\ op = "Get"
    /\ get(PoolsBase, locator, "Agent Pool")
    /\ LET r == ValueOrError(last') IN Return(r.value, r.err)
    /\ UNCHANGED <<heap, gor, golang, svc, op, project, locator, current, follows>>

(* AgentPoolsService.Delete(id) *)
PoolStartDelete ==
    /\ svc = "agentPools" /\ Idle
    /\ \E id \in PoolIds : Begin("Delete", Nil, LocatorIDInt(id), "call", "")

PoolDelete ==
    /\ svc = "agentPools" /\ pc = "call" /\ op = "Delete"
    /\ delete(PoolsBase, locator, "Agent Pool")
    /\ IF last'.err # Nil THEN Return(Nil, last'.err) ELSE Return(Nil, Nil)
    /\ UNCHANGED <<heap, gor, golang, svc, op, project, locator, current, follows>>

(* AgentPoolsService.List() *)
PoolStartList ==
    /\ svc = "agentPools" /\ Idle
    /\ Begin("List", Nil, Nil, "call", "")

PoolList ==
    /\ svc = "agentPools" /\ pc = "call" /\ op = "List"
    /\ get(PoolsBase, Nil, "Agent Pools")
    /\ LET r == ValueOrError(last') IN Return(r.value, r.err)
    /\ UNCHANGED <<heap, gor, golang, svc, op, project, locator, current, follows>>

-----------------------------------------------------------------------------
(* The Slack connection project feature and the project feature service. *)
SlackOptions(clientId, clientSecret, displayName, providerType, token) ==
    [ClientId |-> clientId, ClientSecret |-> clientSecret, DisplayName |-> displayName,
     ProviderType |-> providerType, Token |-> token]

(* NewProjectFeatureSlackConnection(projectID, options) *)
NewProjectFeatureSlackConnection(projectID, options) ==
    [nil |-> FALSE, id |-> "", projectID |-> projectID, Options |-> options]

(* ProjectFeatureSlackConnection.Type() *)
SlackType == "OAuthProvider"

(* Properties(), were providerType taken from the Options. *)
SlackPropertiesAsGiven(f) ==
    <<NewProperty("clientId", f.Options.ClientId),
      NewProperty("secure:clientSecret", f.Options.ClientSecret),
      NewProperty("displayName", f.Options.DisplayName),
      NewProperty("providerType", f.Options.ProviderType),
      NewProperty("secure:token", f.Options.Token)>>

(* ProjectFeatureSlackConnection.Properties() *)
SlackProperties(f) ==
    <<NewProperty("clientId", f.Options.ClientId),
      NewProperty("secure:clientSecret", f.Options.ClientSecret),
      NewProperty("displayName", f.Options.DisplayName),
      NewProperty("providerType", "slackConnection"),
      NewProperty("secure:token", f.Options.Token)>>

(* loadProjectFeatureSlackConnection, were the client secret filled too   *)
(* (with the client id it read).                                           *)
loadFillsSecret(projectID, feature) ==
    LET clientId == GetOk(feature.Properties, "clientId")
        displayName == GetOk(feature.Properties, "displayName")
        providerType == GetOk(feature.Properties, "providerType")
    IN  [nil |-> FALSE, id |-> feature.ID, projectID |-> projectID,
         Options |-> SlackOptions(IF clientId.ok THEN clientId.value ELSE "",
                                  IF clientId.ok THEN clientId.value ELSE "",
                                  IF displayName.ok THEN displayName.value ELSE "",
                                  IF providerType.ok THEN providerType.value ELSE "",
                                  "")]

(* loadProjectFeatureSlackConnection(projectID, feature) *)
loadProjectFeatureSlackConnection(projectID, feature) ==
    LET clientId == GetOk(feature.Properties, "clientId")
        displayName == GetOk(feature.Properties, "displayName")
        providerType == GetOk(feature.Properties, "providerType")
    IN  [nil |-> FALSE, id |-> feature.ID, projectID |-> projectID,
         Options |-> SlackOptions(IF clientId.ok THEN clientId.value ELSE "",
                                  "",
                                  IF displayName.ok THEN displayName.value ELSE "",
                                  IF providerType.ok THEN providerType.value ELSE "",
                                  "")]

FeaturesBase == "projectFeatures/"
FeatureProject == "p"
FeatureInputs ==
    {NewProjectFeatureSlackConnection(FeatureProject, SlackOptions(c, s, n, t, k)) :
        c \in {"c1", "c2"}, s \in {"s1", "s2"}, n \in {"n1", "n2"}, t \in {"", "other"},
        k \in {"t1", "t2"}}
(* What an update sets in the Options of a feature the service returned. *)
FeatureChanges ==
    {SlackOptions("c2", s, "n2", "slackConnection", k) : s \in {"s1", "s2"}, k \in {"t1", "t2"}}
FeatureIDs == {FeatureIDString(i) : i \in FeatureIds}

(* The service's request body for a feature, and the feature it makes of a response. *)
FeatureJSON(f) == [nil |-> FALSE, ID |-> f.id, Type |-> SlackType, Properties |-> SlackProperties(f)]
FeatureOrError(l) ==
    IF l.err # Nil THEN [value |-> Nil, err |-> l.err]
    ELSE [value |-> loadProjectFeatureSlackConnection(FeatureProject, l.out), err |-> Nil]

(* ProjectFeatureService.Create(feature) *)
FeatureStartCreate ==
    /\ svc = "projectFeatures" /\ Idle
    /\ \E f \in FeatureInputs : Begin("Create", f, Nil, "call", "")

FeatureCreate ==
    /\ svc = "projectFeatures" /\ pc = "call" /\ op = "Create"
    /\ post(FeaturesBase, FeatureJSON(project), "project feature")
    /\ LET r == FeatureOrError(last') IN Return(r.value, r.err)
    /\ UNCHANGED <<heap, gor, golang, svc, op, project, locator, current, follows>>

(* ProjectFeatureService.GetByID(id) *)
FeatureStartGet ==
    /\ svc = "projectFeatures" /\ Idle
    /\ \E id \in FeatureIDs : Begin("Get", Nil, LocatorID(id), "call", "")

FeatureGetCreated ==
    /\ svc = "projectFeatures" /\ op = "Create" /\ Succeeded
    /\ Begin("Get", project, LocatorID(ret.value.id), "call", "created")

FeatureGetDeleted ==
    /\ svc = "projectFeatures" /\ op = "Delete" /\ Succeeded
    /\ Begin("Get", Nil, locator, "call", "deleted")

FeatureGet ==
    /\ svc = "projectFeatures" /\ pc = "call" /\ op = "Get"
    /\ get(FeaturesBase, locator, "project feature")
    /\ LET r == FeatureOrError(last') IN Return(r.value, r.err)
    /\ UNCHANGED <<heap, gor, golang, svc, op, project, locator, current, follows>>

(* ProjectFeatureService.Delete(id) *)
FeatureStartDelete ==
    /\ svc = "projectFeatures" /\ Idle
    /\ \E id \in FeatureIDs : Begin("Delete", Nil, LocatorID(id), "call", "")

FeatureDelete ==
    /\ svc = "projectFeatures" /\ pc = "call" /\ op = "Delete"
    /\ delete(FeaturesBase, locator, "project feature")
    /\ Return(Nil, last'.err)
    /\ UNCHANGED <<heap, gor, golang, svc, op, project, locator, current, follows>>

(* ProjectFeatureService.Update(feature), of a feature the service returned *)
FeatureStartUpdate ==
    /\ svc = "projectFeatures" /\ op \in {"Create", "Get"} /\ Succeeded
    /\ \E o \in FeatureChanges :
          Begin("Update", [ret.value EXCEPT !.Options = o], LocatorID(ret.value.id),
                "call", "")

FeatureUpdate ==
    /\ svc = "projectFeatures" /\ pc = "call" /\ op = "Update"
    /\ put(FeaturesBase, locator, "", FeatureJSON(project), "project feature")
    /\ LET r == FeatureOrError(last') IN Return(r.value, r.err)
    /\ UNCHANGED <<heap, gor, golang, svc, op, project, locator, current, follows>>

-----------------------------------------------------------------------------
(* The request builder.  A URL is the sequence of its path segments, the   *)
(* last one empty when the URL ends in a slash; Path resolves a relative   *)
(* path against it, in place.                                              *)
MaxGoroutines == 2
Goroutines == 1..MaxGoroutines
Front(q) == SubSeq(q, 1, Len(q) - 1)
Resolve(raw, path) == IF path = <<>> THEN raw ELSE Front(raw) \o path

(* base.Path("projects/"): the builder the project service and its helper hold *)
ServiceSling == [rawURL |-> <<"projects", "">>, method |-> "", body |-> Nil]
NewHeap == [a \in {0} \cup Goroutines |-> ServiceSling]

(* sling.New() by goroutine g on the builder at a, were the builder itself *)
(* handed back.                                                            *)
SlingAliased(h, a, g) == [heap |-> h, at |-> a]

(* sling.New() by goroutine g on the builder at a: a copy, at g *)
SlingNew(h, a, g) == [heap |-> [h EXCEPT ![g] = h[a]], at |-> g]

(* .Get(path), .Post(path).BodyJSON(data), ... on the builder at a *)
SlingBuild(h, a, verb, path, data) ==
    [h EXCEPT ![a] = [rawURL |-> Resolve(h[a].rawURL, path), method |-> verb, body |-> data]]

(* .Request() on the builder at a *)
SlingRequest(h, a) == [verb |-> h[a].method, url |-> h[a].rawURL, body |-> h[a].body]

(* The helper calls of a service method, from its arguments and from the   *)
(* responses it got so far (got: the ID in each response).                 *)
HelperCall(helper, verb, path, data) ==
    [helper |-> helper, verb |-> verb, path |-> path, body |-> data]
HelperCalls(call, got) ==
    IF call.method = "Create"
    THEN <<HelperCall("post", "POST", <<>>, [Name |-> call.arg])>>
         \o (IF Len(got) >= 1
             THEN <<HelperCall("getWithFields", "GET", <<LocatorString(LocatorID(got[1]))>>, Nil)>>
             ELSE <<>>)
    ELSE IF call.method = "Get"
    THEN <<HelperCall("getWithFields", "GET", <<call.arg>>, Nil)>>
    ELSE IF call.method = "Delete"
    THEN <<HelperCall("deleteByIDWithSling", "DELETE", <<call.arg>>, Nil)>>
    ELSE <<HelperCall("getWithFields", "GET", <<LocatorString(LocatorUUID(TheUUID))>>, Nil)>>
         \o (IF Len(got) >= 1
             THEN <<HelperCall("put", "PUT", <<call.arg, "parameters">>, [property |-> "k"])>>
             ELSE <<>>)
         \o (IF Len(got) >= 2
             THEN <<HelperCall("getWithFields", "GET", <<LocatorString(LocatorUUID(TheUUID))>>, Nil)>>
             ELSE <<>>)
(* How many requests the method makes when none fails. *)
CallLength(call) ==
    IF call.method = "Create" THEN 2 ELSE IF call.method = "Update" THEN 3 ELSE 1
Calls ==
    {[method |-> "Create", arg |-> n] : n \in ProjectNames}
    \cup {[method |-> m, arg |-> LocatorString(LocatorID(id))] :
            m \in {"Get", "Delete"}, id \in ProjectIDs}
    \cup {[method |-> "Update", arg |-> id] : id \in ProjectIDs}
GoIdle == [pc |-> "idle", call |-> Nil, got |-> <<>>, at |-> 0, sent |-> <<>>]

-----------------------------------------------------------------------------
(* The golang build feature.  A JSON object is a function of the fields it *)
(* has; buildFeatureJSON holds pointers for disabled, inherited and        *)
(* properties, nil when the JSON has no such field.                        *)
NoFields == [n \in {} |-> n]

(* Properties.AddOrReplaceValue(name, value) *)
AddOrReplaceValue(props, name, value) ==
    IF name \in PropertyNames(props)
    THEN [i \in 1..Len(props) |->
            IF props[i].name = name THEN NewProperty(name, value) ELSE props[i]]
    ELSE Append(props, NewProperty(name, value))

(* NewFeatureGolang() *)
NewFeatureGolang == [id |-> "", disabled |-> FALSE, buildTypeID |-> "", properties |-> <<>>]

(* FeatureGolang.Type() *)
GolangType == "golang"

(* json.Marshal of a buildFeatureJSON: id and type are left out when empty, *)
(* the pointers when nil.                                                  *)
PropertiesJSON(props) == [count |-> Len(props), property |-> props]
BuildFeatureJSON(id, type, disabled, inherited, properties) ==
    (IF id = "" THEN NoFields ELSE [id |-> id])
    @@ (IF type = "" THEN NoFields ELSE [type |-> type])
    @@ [disabled |-> disabled, inherited |-> inherited,
        properties |-> PropertiesJSON(properties)]

(* FeatureGolang.MarshalJSON(): the bytes, and f, whose properties it      *)
(* changes (out.Properties is f.properties).                               *)
MarshalJSON(f) ==
    LET props == AddOrReplaceValue(f.properties, "test.format", "json")
    IN  [f |-> [f EXCEPT !.properties = props],
         data |-> BuildFeatureJSON(f.id, GolangType, f.disabled, FALSE, props)]

(* FeatureGolang.UnmarshalJSON(data) on f: f afterwards; id and disabled   *)
(* are assigned before aux.Properties.Items is read, which panics when     *)
(* aux.Properties is nil.                                                  *)
UnmarshalJSON(f, data) ==
    LET id == IF "id" \in DOMAIN data THEN data.id ELSE ""
        disabled == IF "disabled" \in DOMAIN data THEN data.disabled ELSE FALSE
    IN  IF "properties" \notin DOMAIN data
        THEN [panic |-> TRUE, f |-> [f EXCEPT !.id = id, !.disabled = disabled]]
        ELSE [panic |-> FALSE,
              f |-> [f EXCEPT !.id = id, !.disabled = disabled,
                              !.properties = data.properties.property]]

GolangIDs == {"", "f1"}
GolangNames == {"test.format", "k"}
GolangValues == {"json", "v"}
(* JSON a server may send for a golang feature. *)
JSONInputs ==
    {[type |-> GolangType]
        @@ (IF id = "" THEN NoFields ELSE [id |-> id])
        @@ (IF d = "none" THEN NoFields ELSE [disabled |-> (d = "true")])
        @@ (IF ps = "none" THEN NoFields
            ELSE [properties |-> PropertiesJSON(<<NewProperty("test.format", "json")>>)]) :
        id \in GolangIDs, d \in {"none", "true", "false"}, ps \in {"none", "some"}}

(* f: the feature; was: f when MarshalJSON was called; data: the JSON at   *)
(* hand and where it is from; into: the feature UnmarshalJSON filled.      *)
NoJSON == [nil |-> TRUE]
GolangStart ==
    [f |-> NewFeatureGolang, was |-> NewFeatureGolang, data |-> NoJSON, from |-> "",
     into |-> NewFeatureGolang, decoded |-> FALSE, panic |-> FALSE]

-----------------------------------------------------------------------------
NoPools == [i \in PoolIds |-> Nil]
NoFeatures == [i \in FeatureIds |-> Nil]

Init ==
    /\ svc \in {"projects", "agentPools", "projectFeatures"}
    /\ srv = [project |-> Nil, pools |-> NoPools, feats |-> NoFeatures]
    /\ op = "" /\ pc = "idle" /\ project = Nil /\ locator = Nil /\ current = Nil
    /\ reqs = <<>> /\ resp = Nil /\ last = Result(Nil, Nil) /\ ret = NoReturn
    /\ nhelper = 0 /\ accepted = <<>> /\ failedAt = 0 /\ follows = "" /\ called = Nil
    /\ heap = NewHeap /\ gor = [g \in Goroutines |-> GoIdle]
    /\ golang = GolangStart

Next ==
    \/ Release
    \/ StartCreate \/ CreatePost \/ GetCreated
    \/ StartUpdate \/ UpdateAgain \/ UpdGet \/ UpdName \/ UpdDescription \/ UpdID
    \/ UpdParent \/ UpdParameters \/ UpdRefresh
    \/ StartGet \/ GetCall
    \/ StartDelete \/ DeleteCall \/ GetDeleted
    \/ PoolStartCreate \/ PoolCreate \/ PoolStartGet \/ PoolGetCreated \/ PoolGetDeleted
    \/ PoolGet \/ PoolStartDelete \/ PoolDelete \/ PoolStartList \/ PoolList
    \/ FeatureStartCreate \/ FeatureCreate \/ FeatureStartGet \/ FeatureGetCreated
    \/ FeatureGetDeleted \/ FeatureGet \/ FeatureStartDelete \/ FeatureDelete
    \/ FeatureStartUpdate \/ FeatureUpdate

Spec == Init /\ [][Next]_vars

-----------------------------------------------------------------------------
(* Several goroutines calling one ProjectService.  Each helper call is     *)
(* three steps, between which the other goroutines run: sling.New(), the   *)
(* building of the request on the builder New handed back, and Request()   *)
(* with httpClient.Do.  The server's answers are arbitrary.                *)
ThisHelper(g) == HelperCalls(gor[g].call, gor[g].got)[Len(gor[g].got) + 1]

(* A goroutine calls a method of the service. *)
GoCall(g) ==
    /\ gor[g].pc = "idle"
    /\ \E c \in Calls : gor' = [gor EXCEPT ![g] = [GoIdle EXCEPT !.pc = "new", !.call = c]]
    /\ UNCHANGED <<heap, golang, seqvars>>

(* r.sling.New(); DeleteLocator hands deleteByIDWithSling s.sling.New(),   *)
(* of which the helper takes its own New().                                *)
GoNew(g) ==
    /\ gor[g].pc = "new"
    /\ LET first == SlingNew(heap, 0, g)
           n == IF gor[g].call.method = "Delete"
                THEN SlingNew(first.heap, first.at, g) ELSE first
       IN  /\ heap' = n.heap
           /\ gor' = [gor EXCEPT ![g].pc = "build", ![g].at = n.at]
    /\ UNCHANGED <<golang, seqvars>>

(* .Post(path).BodyJSON(data) and the like *)
GoBuild(g) ==
    /\ gor[g].pc = "build"
    /\ LET h == ThisHelper(g)
       IN  heap' = SlingBuild(heap, gor[g].at, h.verb, h.path, h.body)
    /\ gor' = [gor EXCEPT ![g].pc = "do"]
    /\ UNCHANGED <<golang, seqvars>>

(* .Request() and httpClient.Do(request): the request goes out, and the    *)
(* call ends on an error, or after its last request, or goes on with the   *)
(* ID it read in the response.                                             *)
GoDo(g) ==
    /\ gor[g].pc = "do"
    /\ LET sent == Append(gor[g].sent, SlingRequest(heap, gor[g].at))
       IN  \/ gor' = [gor EXCEPT ![g].pc = "done", ![g].sent = sent]
           \/ /\ Len(sent) < CallLength(gor[g].call)
              /\ \E id \in ProjectIDs :
                    gor' = [gor EXCEPT ![g].pc = "new", ![g].sent = sent,
                                       ![g].got = Append(@, id)]
    /\ UNCHANGED <<heap, golang, seqvars>>

(* The method has returned and its builder is dropped; the goroutine is   *)
(* free for its next call.                                                 *)
GoReturn(g) ==
    /\ gor[g].pc = "done"
    /\ gor' = [gor EXCEPT ![g] = GoIdle]
    /\ heap' = [heap EXCEPT ![g] = ServiceSling]
    /\ UNCHANGED <<golang, seqvars>>

InitConcurrent == Init /\ svc = "projects"
NextConcurrent ==
    \E g \in Goroutines :
        GoCall(g) \/ GoNew(g) \/ GoBuild(g) \/ GoDo(g) \/ GoReturn(g)
SpecConcurrent == InitConcurrent /\ [][NextConcurrent]_vars

-----------------------------------------------------------------------------
(* A golang build feature is set up, serialized and read back; or JSON     *)
(* that came from a server is read.                                        *)
GolangFresh == golang.data = NoJSON

(* f.SetID(value) *)
GolangSetID ==
    /\ GolangFresh
    /\ \E v \in GolangIDs : golang' = [golang EXCEPT !.f.id = v]
    /\ UNCHANGED <<heap, gor, seqvars>>

(* f.SetDisabled(value) *)
GolangSetDisabled ==
    /\ GolangFresh
    /\ \E b \in BOOLEAN : golang' = [golang EXCEPT !.f.disabled = b]
    /\ UNCHANGED <<heap, gor, seqvars>>

(* f.Properties().AddOrReplaceValue(name, value) *)
GolangSetProperty ==
    /\ GolangFresh
    /\ \E n \in GolangNames, v \in GolangValues :
          golang' = [golang EXCEPT !.f.properties = AddOrReplaceValue(@, n, v)]
    /\ UNCHANGED <<heap, gor, seqvars>>

(* f.MarshalJSON() *)
GolangMarshal ==
    /\ GolangFresh
    /\ LET m == MarshalJSON(golang.f)
       IN  golang' = [golang EXCEPT !.f = m.f, !.was = golang.f, !.data = m.data,
                                    !.from = "MarshalJSON"]
    /\ UNCHANGED <<heap, gor, seqvars>>

(* JSON arrives from a server. *)
GolangReceive ==
    /\ GolangFresh
    /\ \E d \in JSONInputs : golang' = [golang EXCEPT !.data = d, !.from = "server"]
    /\ UNCHANGED <<heap, gor, seqvars>>

(* json.Unmarshal(data, &into), into a new FeatureGolang *)
GolangUnmarshal ==
    /\ ~GolangFresh /\ ~golang.decoded /\ ~golang.panic
    /\ LET u == UnmarshalJSON(NewFeatureGolang, golang.data)
       IN  golang' = [golang EXCEPT !.into = u.f, !.decoded = ~u.panic, !.panic = u.panic]
    /\ UNCHANGED <<heap, gor, seqvars>>

InitGolang == Init /\ svc = "projects"
NextGolang ==
    \/ GolangSetID \/ GolangSetDisabled \/ GolangSetProperty
    \/ GolangMarshal \/ GolangReceive \/ GolangUnmarshal
SpecGolang == InitGolang /\ [][NextGolang]_vars

-----------------------------------------------------------------------------
(* Reading the history of a call. *)
failed == failedAt # 0
Writes(rs) == {i \in 1..Len(rs) : IsWrite(rs[i])}
Field(w) == w.path.sub
InUpdate == svc = "projects" /\ op = "Update"
InCreate == svc = "projects" /\ op = "Create"

(* The field of the stored project a write sets differs between cur and p. *)
Differs(field, cur, p) ==
    IF field = "name" THEN cur.Name # p.Name
    ELSE IF field = "description" THEN cur.Description # p.Description
    ELSE IF field = "id" THEN cur.ID # p.ID
    ELSE IF field = "parentProject" THEN cur.ParentProjectID # p.ParentProjectID
    ELSE cur.Parameters # p.Parameters

ParentConsistent(p) ==
    IF p.ParentProject.nil THEN p.ParentProjectID = ""
    ELSE p.ParentProject.ID = p.ParentProjectID

InProjects == svc = "projects" /\ op \in {"Create", "Get", "Update", "Delete"}

(* C2 as claimed: a ProjectService operation in which a request failed     *)
(* returns a non-nil error.                                                *)
C2_FailureIsReturned ==
    (InProjects /\ Returned /\ failed) => ret.err # Nil

(* C3: in Update, a request that failed is the last request of the call:   *)
(* the call has returned, and the failure is that of its last request.     *)
C3_NoRequestAfterFailure ==
    (InUpdate /\ failed) =>
        /\ Returned
        /\ Len(reqs) = failedAt
        /\ last.err # Nil
        /\ (failedAt = 1 => Writes(reqs) = {})

(* An Update whose third request, a write after a write, failed. *)
C3_Witness ==
    /\ InUpdate /\ failedAt = 3 /\ Returned
    /\ IsWrite(reqs[2]) /\ IsWrite(reqs[3])

(* The stored project shows the write w of project p. *)
Shows(sp, w, p) ==
    IF w.verb = "POST" THEN ~sp.nil
    ELSE IF sp.nil THEN FALSE
    ELSE IF Field(w) = "name" THEN sp.Name = p.Name
    ELSE IF Field(w) = "description" THEN sp.Description = p.Description
    ELSE IF Field(w) = "id" THEN sp.ID = p.ID
    ELSE IF Field(w) = "parentProject" THEN sp.ParentProjectID = p.ParentProject.ID
    ELSE sp.Parameters = p.Parameters

(* Every write of this call the server carried out is still in place. *)
C4_NothingRolledBack ==
    (InUpdate \/ InCreate) =>
        \A i \in 1..Len(accepted) : Shows(srv.project, accepted[i], project)

(* C4 as claimed: when a step of Update or Create fails, the writes made   *)
(* before it stay applied and the error returned is that of the failed     *)
(* step.                                                                   *)
C4_PartialFailure ==
    ((InUpdate \/ InCreate) /\ Returned /\ failed) =>
        /\ \A i \in 1..Len(accepted) : Shows(srv.project, accepted[i], project)
        /\ ret.value = Nil
        /\ ret.err = last.err

-----------------------------------------------------------------------------
(* The statuses on which a helper reports success, and the verb it names   *)
(* in its errors.                                                          *)
SuccessOf(helper) ==
    IF helper = "getWithFields" THEN {200}
    ELSE IF helper = "deleteByIDWithSling" THEN {200, 204}
    ELSE {200, 201}
VerbOf(helper) ==
    IF helper = "getWithFields" THEN "GET"
    ELSE IF helper = "deleteByIDWithSling" THEN "DELETE"
    ELSE IF helper = "post" THEN "POST"
    ELSE "PUT"
Answered == called # Nil /\ ~resp.net
CarriedError ==
    [nil |-> FALSE, kind |-> "rest", status |-> resp.status, op |-> VerbOf(called.helper),
     res |-> called.res, body |-> resp.body]

(* C5 as claimed: a helper succeeds only on its verb's success statuses,   *)
(* and on every other status returns an error carrying the status, the     *)
(* verb, the caller's resource description and the raw body.               *)
C5_StatusDecides ==
    Answered =>
        /\ (last.err = Nil => resp.status \in SuccessOf(called.helper))
        /\ (resp.status \notin SuccessOf(called.helper) => last.err = CarriedError)

(* C5 as amended: a helper succeeds only on its verb's success statuses;   *)
(* on every other status it returns an error, which carries the status,    *)
(* the verb, the resource description and the raw body when the body could *)
(* be read, and is the error of reading the body when it could not.        *)
C5_StatusDecidesWhenBodyRead ==
    Answered =>
        /\ (last.err = Nil => resp.status \in SuccessOf(called.helper))
        /\ (resp.status \notin SuccessOf(called.helper) =>
              last.err = IF resp.fault = "read" THEN ReadError ELSE CarriedError)

(* A GET answered 201, reported as an error that carries the 201. *)
C5_Witness ==
    /\ Answered /\ called.helper = "getWithFields" /\ resp.status = 201
    /\ resp.fault # "read" /\ last.err = CarriedError

(* C6: a helper call is one request, whatever comes of it, so a call of    *)
(* the agent pool service, which calls one helper, makes one request.      *)
C6_OneRequestPerHelperCall ==
    /\ Len(reqs) = nhelper
    /\ (svc = "agentPools" /\ Returned) => Len(reqs) = 1

(* An agent pool Create that failed, having made its one request. *)
C6_Witness ==
    /\ svc = "agentPools" /\ op = "Create" /\ Returned /\ failed
    /\ Len(reqs) = 1 /\ reqs[1].verb = "POST"

(* C7 as claimed: Create of a project without a name fails before any      *)
(* request is made.                                                        *)
C7_CreateValidatesName ==
    (InCreate /\ project.Name = "") =>
        /\ reqs = <<>>
        /\ Returned => ret.err # Nil

(* C7 as amended: the name is checked by NewProject alone, which returns   *)
(* an error and no project exactly when the name is empty; Create checks   *)
(* nothing, and its first request is the creation POST whatever the name.  *)
C7_OnlyNewProjectValidates ==
    /\ \A n \in ProjectNames \cup {""}, d \in Descriptions, parent \in {"", OtherParent} :
          /\ NewProject(n, d, parent).err # Nil <=> n = ""
          /\ NewProject(n, d, parent).project = Nil <=> n = ""
    /\ (InCreate /\ pc # "post") => (reqs # <<>> /\ reqs[1].verb = "POST")

(* A Create of a project without a name whose POST reached the server. *)
C7_Witness ==
    /\ InCreate /\ project.Name = "" /\ Returned
    /\ Len(reqs) = 1 /\ reqs[1].verb = "POST" /\ ~resp.net

(* The stored project as ProjectService.Get returns it. *)
AsRead(sp) == [ProjectDoc(sp) EXCEPT !.Parameters = NonInherited(@)]

(* C8: Create posts first; if the POST fails it makes no other request;    *)
(* otherwise every later request addresses the ID the server gave, and     *)
(* the project returned is the one the last request read back.             *)
C8_CreateThenReconcile ==
    InCreate =>
        /\ \A i \in 1..Len(reqs) : (reqs[i].verb = "POST") <=> (i = 1)
        /\ (failedAt = 1 => Len(reqs) = 1 /\ Returned /\ ret.value = Nil)
        /\ (Len(reqs) >= 2 =>
              /\ ~srv.project.nil
              /\ \A i \in 2..Len(reqs) : reqs[i].path.loc.value = srv.project.ID)
        /\ (Succeeded =>
              /\ Len(reqs) >= 3 /\ reqs[Len(reqs)].verb = "GET"
              /\ ret.value = AsRead(srv.project)
              /\ ret.value.Description = project.Description)

(* A Create that returned the description the creation response lacks. *)
C8_Witness ==
    /\ InCreate /\ Succeeded /\ project.Description = "d"
    /\ ret.value.Description = "d" /\ Len(reqs) = 4

(* C9: a GetByID that follows the successful Delete of the same            *)
(* identifier returns an error and no record.                              *)
C9_GetAfterDeleteFails ==
    (follows = "deleted" /\ Returned) => (ret.err # Nil /\ ret.value = Nil)

(* Such a GetByID, answered 404. *)
C9_Witness ==
    /\ follows = "deleted" /\ Returned /\ op = "Get"
    /\ ~resp.net /\ resp.status = 404

(* The record a GetByID that followed a Create returned, and the fields    *)
(* the Create was given.                                                   *)
ReadBackCreated == follows = "created" /\ Succeeded

ReturnedFeature == svc = "projectFeatures" /\ Succeeded /\ op \in {"Create", "Get", "Update"}
ReturnedMap == Map(SlackProperties(ret.value))
(* The map made of the client id and display name alone. *)
PublicMap(clientId, displayName) ==
    [n \in {"clientId", "secure:clientSecret", "displayName", "providerType",
            "secure:token"} |->
        IF n = "clientId" THEN clientId
        ELSE IF n = "displayName" THEN displayName
        ELSE IF n = "providerType" THEN "slackConnection"
        ELSE ""]

(* C11: the property map of a Slack connection the service returned holds  *)
(* the empty value for secure:clientSecret and secure:token, and when the   *)
(* feature answers a Create, an Update or the read that follows a Create,   *)
(* the map is the one made of the supplied client id and display name      *)
(* alone: two calls that differ in the client secret or the token only     *)
(* return the same map.                                                    *)
C11_SecureValuesNotReturned ==
    ReturnedFeature =>
        /\ ReturnedMap["secure:clientSecret"] = ""
        /\ ReturnedMap["secure:token"] = ""
        /\ project # Nil =>
              ReturnedMap = PublicMap(project.Options.ClientId, project.Options.DisplayName)

(* An Update that set a client secret and a token returned its feature. *)
C11_Witness ==
    /\ ReturnedFeature /\ op = "Update"
    /\ project.Options.ClientSecret = "s2" /\ project.Options.Token = "t2"
    /\ \E i \in FeatureIds : ~srv.feats[i].nil
          /\ GetOk(srv.feats[i].Properties, "secure:clientSecret").value = "s2"

(* A Slack connection the caller handed to Create or Update. *)
SuppliedFeature == svc = "projectFeatures" /\ op \in {"Create", "Update"} /\ project # Nil

(* C12: the property map of a Slack connection maps providerType to        *)
(* "slackConnection" whatever Options.ProviderType is, and clientId and    *)
(* displayName to Options.ClientId and Options.DisplayName; the feature    *)
(* loaded back from those properties, and every feature the service        *)
(* returns, has Options.ProviderType = "slackConnection".                  *)
C12_ProviderTypeIsSlackConnection ==
    /\ SuppliedFeature =>
          /\ Map(SlackProperties(project))["providerType"] = "slackConnection"
          /\ Map(SlackProperties(project))["clientId"] = project.Options.ClientId
          /\ Map(SlackProperties(project))["displayName"] = project.Options.DisplayName
          /\ loadProjectFeatureSlackConnection(project.projectID, FeatureJSON(project))
                .Options.ProviderType = "slackConnection"
    /\ ReturnedFeature => ret.value.Options.ProviderType = "slackConnection"

(* A feature created with another provider type, and one created with none, *)
(* came back from Create.                                                   *)
C12_Witness ==
    /\ ReturnedFeature /\ op = "Create" /\ project.Options.ProviderType = "other"
    /\ ret.value.Options.ClientId = "c1"

ParentWrites(rs) == {i \in Writes(rs) : Field(rs[i]) = "parentProject"}
NamesNoParent(p) == p.ParentProjectID = "" /\ p.ParentProject.nil
BeforeParentWrite == pc \in {"name", "description", "id", "parentProject"}

(* C13: Update issues no parent-project write when the parent the server   *)
(* holds equals the desired ParentProjectID (the parent it read at the     *)
(* start of the call is still the server's when the parent step is         *)
(* reached), nor when the desired project names no parent; the             *)
(* reconciliation of Create issues no parent-project write.                *)
C13_NoParentWriteWhenUnchanged ==
    /\ InUpdate =>
          /\ \A i \in ParentWrites(reqs) :
                /\ current.ParentProjectID # project.ParentProjectID
                /\ ~NamesNoParent(project)
          /\ BeforeParentWrite => srv.project.ParentProjectID = current.ParentProjectID
    /\ InCreate => ParentWrites(reqs) = {}

(* An Update of a project under its present parent that wrote the          *)
(* description and left the parent alone.                                  *)
C13_Witness ==
    /\ InUpdate /\ Succeeded /\ ParentWrites(reqs) = {} /\ Writes(reqs) # {}
    /\ project.ParentProjectID = OtherParent /\ current.ParentProjectID = OtherParent

FieldWrites(rs, field) == {i \in Writes(rs) : Field(rs[i]) = field}

RequestOf(h) == [verb |-> h.verb, url |-> <<"projects">> \o (IF h.path = <<>> THEN <<"">> ELSE h.path),
                 body |-> h.body]

(* C15: no step of a service method changes the service's request builder, *)
(* and with calls of several goroutines interleaved, every request a call  *)
(* has sent is the one its arguments and the responses it got determine,   *)
(* whatever the other goroutines are doing.                                *)
C15_NoSharedMutableState ==
    /\ heap[0] = ServiceSling
    /\ \A g \in Goroutines : \A i \in 1..Len(gor[g].sent) :
          gor[g].sent[i] = RequestOf(HelperCalls(gor[g].call, gor[g].got)[i])

(* An Update has sent its write while another goroutine, having built the  *)
(* request of a Delete, has not sent it yet.                               *)
C15_Witness ==
    \E g, o \in Goroutines :
        /\ g # o
        /\ gor[g].call # Nil /\ gor[g].call.method = "Update" /\ Len(gor[g].sent) = 2
        /\ gor[o].call # Nil /\ gor[o].call.method = "Delete" /\ gor[o].pc = "do"

(* The place of a write in the order the claim gives. *)
Rank(field) ==
    IF field = "name" THEN 1 ELSE IF field = "description" THEN 2
    ELSE IF field = "id" THEN 3 ELSE IF field = "parentProject" THEN 4 ELSE 5
IsRead(w) == w.verb = "GET"
InOrder(rs) ==
    /\ (Len(rs) >= 1 => IsRead(rs[1]))
    /\ \A i, j \in Writes(rs) : i < j => Rank(Field(rs[i])) < Rank(Field(rs[j]))
    /\ \A i \in 2..Len(rs) : IsRead(rs[i]) => i = Len(rs)
EndsWithRead(rs) == Len(rs) >= 2 /\ IsRead(rs[Len(rs)])

(* C16 as claimed: the requests of an Update are a read, then the name,    *)
(* description, id, parent-project and parameters writes in that order,    *)
(* then a final read; an Update that returns no error began and ended with *)
(* a read and returns what the final read read.                            *)
C16_FixedOrder ==
    InUpdate =>
        /\ InOrder(reqs)
        /\ Succeeded => (EndsWithRead(reqs) /\ ret.value = AsRead(srv.project))

(* What holds of it: the order, and the final read of an Update none of    *)
(* whose requests failed.                                                  *)
C16_OrderAndFinalReadUnlessFailed ==
    InUpdate =>
        /\ InOrder(reqs)
        /\ (Returned /\ ~failed) => (EndsWithRead(reqs) /\ ret.value = AsRead(srv.project))

(* The project an Update returned has the desired name, description and id. *)
ReturnsDesired ==
    /\ ret.value # Nil
    /\ ret.value.Name = project.Name
    /\ ret.value.Description = project.Description
    /\ ret.value.ID = project.ID

(* C17 as claimed: an Update that returns no error returns a project with  *)
(* the desired Name, Description and ID, also when the call changed the ID. *)
C17_ReturnsDesiredState ==
    (InUpdate /\ Succeeded) => ReturnsDesired

(* What holds of it: so does every Update none of whose requests failed;   *)
(* the writes that follow an id write address the new ID, and the final    *)
(* read finds the project by its UUID.                                     *)
C17_ReturnsDesiredStateUnlessFailed ==
    InUpdate =>
        /\ (Returned /\ ~failed) => ReturnsDesired
        /\ \A i \in FieldWrites(accepted, "id") : \A j \in Writes(reqs) :
              Rank(Field(reqs[j])) > 3 => reqs[j].path.loc.value = project.ID
        /\ \A i \in 1..Len(reqs) : IsRead(reqs[i]) => reqs[i].path.loc = LocatorUUID(project.UUID)

(* The call is past the parameters step of updateProject: at its final     *)
(* read, or returned after it.                                             *)
PastParameters ==
    \/ pc = "refresh"
    \/ Returned /\ Len(reqs) >= 2 /\ IsRead(reqs[Len(reqs)])

(* C18: Update issues the parameters write only when the desired project   *)
(* has at least one parameter, and an Update that got past the parameters  *)
(* step issued it once if it has one and not at all if it has none; when   *)
(* the desired parameter set is empty the parameters the server stores     *)
(* stay the ones read at the start of the call, whatever they are.         *)
C18_ParametersWrittenWhenAny ==
    InUpdate =>
        /\ FieldWrites(reqs, "parameters") # {} => Count(project.Parameters) > 0
        /\ PastParameters =>
              Cardinality(FieldWrites(reqs, "parameters"))
                  = IF Count(project.Parameters) > 0 THEN 1 ELSE 0
        /\ (Count(project.Parameters) = 0 /\ current # Nil) =>
              srv.project.Parameters = current.Parameters

(* An Update with no parameters, of a project that has one, ran to its end *)
(* and the parameter is still there.                                       *)
C18_Witness ==
    /\ InUpdate /\ Succeeded /\ ~failed /\ Count(project.Parameters) = 0
    /\ Writes(reqs) # {}
    /\ Count(srv.project.Parameters) > 0 /\ ret.value.Parameters = srv.project.Parameters

(* What is known of a golang feature's JSON once UnmarshalJSON has run. *)
Unmarshalled == golang.decoded \/ golang.panic
Marshalled == golang.from = "MarshalJSON"
SameButTestFormat(ps, qs) ==
    /\ PropertyNames(qs) = PropertyNames(ps) \cup {"test.format"}
    /\ GetOk(qs, "test.format").value = "json"
    /\ \A n \in PropertyNames(ps) \ {"test.format"} : GetOk(qs, n) = GetOk(ps, n)
    /\ Len(qs) = Cardinality(PropertyNames(qs))
EmitsGolang ==
    Marshalled =>
        /\ golang.data.type = "golang" /\ golang.data.inherited = FALSE
        /\ SameButTestFormat(golang.was.properties, golang.data.properties.property)
RoundTrip ==
    (Marshalled /\ Unmarshalled) =>
        /\ golang.decoded
        /\ golang.into.id = golang.was.id
        /\ golang.into.disabled = golang.was.disabled
        /\ SameButTestFormat(golang.was.properties, golang.into.properties)
NoDisabledField == golang.from = "server" /\ "disabled" \notin DOMAIN golang.data

(* C19 as claimed: MarshalJSON emits type "golang", inherited false and    *)
(* test.format = "json" in place of any value the caller set; UnmarshalJSON *)
(* of that output gives the id, the disabled flag and the properties of f  *)
(* apart from test.format; and a JSON input without a disabled field       *)
(* decodes, as disabled = false.                                           *)
C19_GolangRoundTrip ==
    /\ EmitsGolang
    /\ RoundTrip
    /\ (NoDisabledField /\ Unmarshalled) => (golang.decoded /\ ~golang.into.disabled)

(* What holds of it: the same, for the JSON inputs that have a properties  *)
(* field; on an input without one UnmarshalJSON panics.                    *)
C19_GolangRoundTripWithProperties ==
    /\ EmitsGolang
    /\ RoundTrip
    /\ (NoDisabledField /\ Unmarshalled) =>
          IF "properties" \in DOMAIN golang.data
          THEN golang.decoded /\ ~golang.into.disabled
          ELSE golang.panic

(* A disabled feature whose test.format the caller had set to something    *)
(* else came back from its JSON.                                           *)
C19_RoundTripReached ==
    /\ Marshalled /\ golang.decoded /\ golang.was.disabled /\ golang.was.id = "f1"
    /\ GetOk(golang.was.properties, "test.format").value = "v"
    /\ "k" \in PropertyNames(golang.was.properties)

====
